---- MODULE Spec2Model ----
(***************************************************************************)
(* Model of mesos_client_service.go: waitForMesosSlaveRegistration (the    *)
(* supervisor goroutine), asyncQueryRegistration (the polling goroutine),  *)
(* isSlaveRegistered (one polling tick) and queryMesosState (one query).   *)
(*                                                                         *)
(* Strings are sequences of tokens; the token "@" is the only one that     *)
(* contains the separator of strings.Split(leader, "@").                   *)
(*                                                                         *)
(* Channels follow the Go runtime: a send to a channel on which a          *)
(* goroutine is parked in a select is handed to that goroutine directly    *)
(* and decides its select; otherwise it goes to the buffer if there is     *)
(* room, and blocks if there is none.  time.After(d) is evaluated when the *)
(* select is entered, so a timer can only fire on a parked goroutine.      *)
(* No real-time assumption is made: the goroutines interleave freely.      *)
(*                                                                         *)
(* main's return (which would end the process and the polling goroutine)   *)
(* is not modelled: the caller of waitForMesosSlaveRegistration keeps      *)
(* running after it returns.                                               *)
(***************************************************************************)
EXTENDS Integers, Sequences, FiniteSets, TLC

\* ---------------------------------------------------------------- bounds
MaxSlaves == 2

\* ------------------------------------------------------ program constants
\* stateChan := make(chan bool, 1)
StateCap == 1

\* variant of DoneCap: make(chan bool)
DoneCapUnbuffered == StateCap - 1

\* doneChan := make(chan bool, 1)
DoneCap == 1

\* ------------------------------------------------------------ input data
\* command-line configuration handed to waitForMesosSlaveRegistration
mip == <<"hA">>

mport == <<"5050">>

mapi == <<"/state">>

sip == "ip1"

IPs == {"ip1", "ip2"}

\* MesosSlave, reduced to the two address attributes (the other fields are
\* never read by the program)
MesosSlave == [privateip : IPs, publicip : IPs]

SlaveLists == UNION {[1..n -> MesosSlave] : n \in 0..MaxSlaves}

\* values of stateData.ElectedTime: zero (absent) or a non-zero timestamp
ElectedTimes == {0, 1}

\* values of the "leader" field: well formed, well formed with a second
\* separator, and malformed (no "@")
Leaders ==
  { <<"master", "@", "hA", ":", "5050">>,
    <<"master", "@", "hB", ":", "5050">>,
    <<"master", "@", "hB", ":", "5050", "@", "x">>,
    <<"master">> }

Pids ==
  { <<"master", "@", "hA", ":", "5050">>,
    <<"master", "@", "hB", ":", "5050">> }

\* MesosState as decoded from a response body
MesosState ==
  [electedTime : ElectedTimes, leader : Leaders, pid : Pids,
   slaves : SlaveLists, isNil : {FALSE}]

\* the nil *MesosState that queryMesosState returns with a decode error
NilState ==
  [electedTime |-> 0, leader |-> <<>>, pid |-> <<>>, slaves |-> <<>>,
   isNil |-> TRUE]

\* outcomes of one call of queryMesosState
Outcomes == {"neterr", "decerr", "ok"}

\* ------------------------------------------------------- pure functions
\* strings.Split(s, "@"): the pieces of s between separators
RECURSIVE SplitFrom(_, _, _)
SplitFrom(s, i, cur) ==
  IF i > Len(s) THEN <<cur>>
  ELSE IF s[i] = "@" THEN <<cur>> \o SplitFrom(s, i + 1, <<>>)
  ELSE SplitFrom(s, i + 1, Append(cur, s[i]))

Split(s) == SplitFrom(s, 1, <<>>)

\* fmt.Sprintf("%s:%s", mip, mport)
HostPort(ip, port) == ip \o <<":">> \o port

\* variant of MkUrl that drops the endpoint path
MkUrlNoPath(hostPort, endpoint) == <<"http://">> \o hostPort

\* variant of HostPortAfterRedirect that assigns the parameter
HostPortOverwritten(hostPort, newHostPort) == newHostPort

\* newHostPort := ... declares a new local: the mesosHostPort parameter keeps
\* its value when a leader field is followed
HostPortAfterRedirect(hostPort, newHostPort) == hostPort

\* fmt.Sprintf("http://%s/%s", hostPort, endpoint)
MkUrl(hostPort, endpoint) == <<"http://">> \o hostPort \o <<"/">> \o endpoint

\* variant of NeedsRedirect that follows the leader field of every answer
NeedsRedirectAlways(s) == s.leader = s.leader

\* variant of NeedsRedirect that follows every answer that is not a leader's
NeedsRedirectNotLeader(s) == ~(s.electedTime # 0 /\ s.leader = s.pid)

\* the condition of the redirect branch of isSlaveRegistered
NeedsRedirect(s) == s.electedTime = 0 /\ s.leader # s.pid

\* variant of ScanSlaves that looks at the first record only
ScanFirstOnly(slaves, agentIP, i) ==
  IF i > Len(slaves) THEN FALSE
  ELSE slaves[i].privateip = agentIP

\* variant of ScanSlaves that compares the publicip attribute
RECURSIVE ScanByPublicIP(_, _, _)
ScanByPublicIP(slaves, agentIP, i) ==
  IF i > Len(slaves) THEN FALSE
  ELSE IF slaves[i].publicip = agentIP THEN TRUE
  ELSE ScanByPublicIP(slaves, agentIP, i + 1)

\* the for-range scan of stateData.Slaves, first match returns true
RECURSIVE ScanSlaves(_, _, _)
ScanSlaves(slaves, agentIP, i) ==
  IF i > Len(slaves) THEN FALSE
  ELSE IF slaves[i].privateip = agentIP THEN TRUE
  ELSE ScanSlaves(slaves, agentIP, i + 1)

\* ----------------------------------------------------------------- state
VARIABLES
  proc,          \* "running", or how the process ended inside a tick
  spc,           \* position of waitForMesosSlaveRegistration
  lpc,           \* position of asyncQueryRegistration / isSlaveRegistered
  stateChan,     \* buffer of stateChan (out)
  stateClosed,   \* close(out) has run
  doneChan,      \* buffer of doneChan (done)
  doneClosed,    \* close(doneChan) has run
  isRegistered,  \* waitForMesosSlaveRegistration's isRegistered
  selected,      \* which case of the supervisor's select ran
  tickRegistered,\* asyncQueryRegistration's isRegistered
  url,           \* isSlaveRegistered's url
  stateData,     \* isSlaveRegistered's stateData
  queriesInTick, \* calls of queryMesosState begun in the current tick
  firstIsLeader, \* the first answer of the tick had elected_time and leader = pid
  mesosHostPort, \* asyncQueryRegistration's mesosHostPort parameter
  everRedirected,\* some tick so far has followed a leader field
  sentBeforeTimeout, \* a true was sent on out before the 90 s timer fired
  everContained  \* some returned snapshot listed the agent's private IP

vars ==
  <<proc, spc, lpc, stateChan, stateClosed, doneChan, doneClosed,
    isRegistered, selected, tickRegistered, url, stateData, queriesInTick,
    firstIsLeader, mesosHostPort, everRedirected, sentBeforeTimeout,
    everContained>>

supLocals == <<isRegistered, selected>>

tickLocals == <<tickRegistered, url, stateData, queriesInTick, firstIsLeader>>

Running == proc = "running"

\* lines 171-176, before the go statement
Init ==
  /\ proc = "running"
  /\ spc = "go"
  /\ lpc = "idle"
  /\ stateChan = <<>>
  /\ stateClosed = FALSE
  /\ doneChan = <<>>
  /\ doneClosed = FALSE
  /\ isRegistered = FALSE
  /\ selected = "none"
  /\ tickRegistered = FALSE
  /\ url = <<>>
  /\ stateData = NilState
  /\ queriesInTick = 0
  /\ firstIsLeader = FALSE
  /\ mesosHostPort = <<>>
  /\ everRedirected = FALSE
  /\ sentBeforeTimeout = FALSE
  /\ everContained = FALSE

\* ------------------------------------------------------------ supervisor
\* go asyncQueryRegistration(...)
SupGo ==
  /\ Running /\ spc = "go"
  /\ spc' = "select"
  /\ lpc' = "call"
  /\ mesosHostPort' = HostPort(mip, mport)
  /\ UNCHANGED <<proc, stateChan, stateClosed, doneChan, doneClosed,
                 supLocals, tickLocals, sentBeforeTimeout, everContained, everRedirected>>

\* variant of SupSelect that parks without looking at the buffer
SupSelectAlwaysParks ==
  /\ Running /\ spc = "select"
  /\ spc' = "parked"
  /\ UNCHANGED <<proc, lpc, stateChan, stateClosed, doneChan, doneClosed,
                 supLocals, tickLocals, sentBeforeTimeout, everContained,
                 mesosHostPort, everRedirected>>

\* entering the select: a buffered value (or a closed channel) is received
\* at once; otherwise the goroutine parks with the 90 s timer armed
SupSelect ==
  /\ Running /\ spc = "select"
  /\ IF Len(stateChan) > 0
       THEN /\ isRegistered' = Head(stateChan)
            /\ stateChan' = Tail(stateChan)
            /\ selected' = "recv"
            /\ spc' = "send"
       ELSE IF stateClosed
         THEN /\ isRegistered' = FALSE
              /\ selected' = "recv"
              /\ spc' = "send"
              /\ UNCHANGED stateChan
         ELSE /\ spc' = "parked"
              /\ UNCHANGED <<isRegistered, selected, stateChan>>
  /\ UNCHANGED <<proc, lpc, stateClosed, doneChan, doneClosed, tickLocals,
                 sentBeforeTimeout, everContained,
                 mesosHostPort, everRedirected>>

\* case <-time.After(time.Second * 90)
SupTimeout ==
  /\ Running /\ spc = "parked"
  /\ selected' = "timeout"
  /\ spc' = "send"
  /\ UNCHANGED <<proc, lpc, stateChan, stateClosed, doneChan, doneClosed,
                 isRegistered, tickLocals, sentBeforeTimeout, everContained,
                 mesosHostPort, everRedirected>>

\* positions of the loop inside a tick (line 143 to line 147)
InTick == {"call", "inflight1", "resolve", "inflight2", "check", "checked"}

\* variant of SupSendDone that interrupts a tick under way
SupSendDonePreempts ==
  /\ Running /\ spc = "send"
  /\ IF lpc \in InTick \cup {"parked"}
       THEN /\ lpc' = "closing"
            /\ UNCHANGED doneChan
       ELSE /\ Len(doneChan) < DoneCap
            /\ doneChan' = Append(doneChan, TRUE)
            /\ UNCHANGED lpc
  /\ spc' = "close"
  /\ UNCHANGED <<proc, stateChan, stateClosed, doneClosed, supLocals,
                 tickLocals, sentBeforeTimeout, everContained,
                 mesosHostPort, everRedirected>>

\* variant of SupSendDone that signals only after the timeout case
SupSendDoneOnlyOnTimeout ==
  /\ Running /\ spc = "send"
  /\ IF lpc = "parked"
       THEN /\ lpc' = "closing"
            /\ UNCHANGED doneChan
       ELSE IF selected = "recv"
         THEN UNCHANGED <<doneChan, lpc>>
         ELSE /\ Len(doneChan) < DoneCap
              /\ doneChan' = Append(doneChan, TRUE)
              /\ UNCHANGED lpc
  /\ spc' = "close"
  /\ UNCHANGED <<proc, stateChan, stateClosed, doneClosed, supLocals,
                 tickLocals, sentBeforeTimeout, everContained,
                 mesosHostPort, everRedirected>>

\* doneChan <- true
SupSendDone ==
  /\ Running /\ spc = "send"
  /\ IF lpc = "parked"
       THEN /\ lpc' = "closing"
            /\ UNCHANGED doneChan
       ELSE /\ Len(doneChan) < DoneCap
            /\ doneChan' = Append(doneChan, TRUE)
            /\ UNCHANGED lpc
  /\ spc' = "close"
  /\ UNCHANGED <<proc, stateChan, stateClosed, doneClosed, supLocals,
                 tickLocals, sentBeforeTimeout, everContained,
                 mesosHostPort, everRedirected>>

\* close(doneChan); return isRegistered
SupClose ==
  /\ Running /\ spc = "close"
  /\ doneClosed' = TRUE
  /\ spc' = "returned"
  /\ lpc' = IF lpc = "parked" THEN "closing" ELSE lpc
  /\ UNCHANGED <<proc, stateChan, stateClosed, doneChan, supLocals,
                 tickLocals, sentBeforeTimeout, everContained,
                 mesosHostPort, everRedirected>>

\* ---------------------------------------------------------- polling loop
\* isSlaveRegistered is called; url is built and the first query begins
QueryBegin1 ==
  /\ Running /\ lpc = "call"
  /\ url' = MkUrl(mesosHostPort, mapi)
  /\ stateData' = NilState
  /\ queriesInTick' = 1
  /\ firstIsLeader' = FALSE
  /\ lpc' = "inflight1"
  /\ UNCHANGED <<proc, spc, stateChan, stateClosed, doneChan, doneClosed,
                 supLocals, tickRegistered, sentBeforeTimeout, everContained,
                 mesosHostPort, everRedirected>>

\* queryMesosState returns to line 108: a transport error panics, a decode
\* error makes isSlaveRegistered call os.Exit(1)
Query1Return ==
  /\ Running /\ lpc = "inflight1"
  /\ \E o \in Outcomes :
       \/ /\ o = "neterr"
          /\ proc' = "panicNet"
          /\ UNCHANGED <<lpc, stateData, firstIsLeader, everContained>>
       \/ /\ o = "decerr"
          /\ proc' = "exitDecode"
          /\ UNCHANGED <<lpc, stateData, firstIsLeader, everContained>>
       \/ /\ o = "ok"
          /\ \E s \in MesosState :
               /\ stateData' = s
               /\ firstIsLeader' = (s.electedTime # 0 /\ s.leader = s.pid)
               /\ everContained' =
                    (everContained \/
                       \E i \in DOMAIN s.slaves : s.slaves[i].privateip = sip)
          /\ lpc' = "resolve"
          /\ UNCHANGED proc
  /\ UNCHANGED <<spc, stateChan, stateClosed, doneChan, doneClosed,
                 supLocals, tickRegistered, url, queriesInTick,
                 sentBeforeTimeout,
                 mesosHostPort, everRedirected>>

\* lines 116-126: a non-leader answer is followed to the leader it names
Resolve ==
  /\ Running /\ lpc = "resolve"
  /\ IF NeedsRedirect(stateData)
       THEN IF Len(Split(stateData.leader)) < 2
              THEN /\ proc' = "panicIndex"
                   /\ UNCHANGED <<lpc, url, queriesInTick, everRedirected,
                                  mesosHostPort>>
              ELSE /\ url' = MkUrl(Split(stateData.leader)[2], mapi)
                   /\ queriesInTick' = queriesInTick + 1
                   /\ everRedirected' = TRUE
                   /\ mesosHostPort' =
                        HostPortAfterRedirect(mesosHostPort,
                                              Split(stateData.leader)[2])
                   /\ lpc' = "inflight2"
                   /\ UNCHANGED proc
       ELSE /\ lpc' = "check"
            /\ UNCHANGED <<proc, url, queriesInTick, everRedirected,
                           mesosHostPort>>
  /\ UNCHANGED <<spc, stateChan, stateClosed, doneChan, doneClosed,
                 supLocals, tickRegistered, stateData, firstIsLeader,
                 sentBeforeTimeout, everContained>>

\* variant of Query2Return that resolves the second answer again
Query2ReturnChasing ==
  /\ Running /\ lpc = "inflight2"
  /\ \E o \in Outcomes :
       \/ /\ o = "neterr"
          /\ proc' = "panicNet"
          /\ UNCHANGED <<lpc, stateData, everContained>>
       \/ /\ o = "decerr"
          /\ stateData' = NilState
          /\ lpc' = "check"
          /\ UNCHANGED <<proc, everContained>>
       \/ /\ o = "ok"
          /\ \E s \in MesosState :
               /\ stateData' = s
               /\ everContained' =
                    (everContained \/
                       \E i \in DOMAIN s.slaves : s.slaves[i].privateip = sip)
          /\ lpc' = "resolve"
          /\ UNCHANGED proc
  /\ UNCHANGED <<spc, stateChan, stateClosed, doneChan, doneClosed,
                 supLocals, tickRegistered, url, queriesInTick,
                 firstIsLeader, sentBeforeTimeout,
                 mesosHostPort, everRedirected>>

\* queryMesosState returns to line 122: a transport error panics, a decode
\* error leaves stateData nil and err unread
Query2Return ==
  /\ Running /\ lpc = "inflight2"
  /\ \E o \in Outcomes :
       \/ /\ o = "neterr"
          /\ proc' = "panicNet"
          /\ UNCHANGED <<lpc, stateData, everContained>>
       \/ /\ o = "decerr"
          /\ stateData' = NilState
          /\ lpc' = "check"
          /\ UNCHANGED <<proc, everContained>>
       \/ /\ o = "ok"
          /\ \E s \in MesosState :
               /\ stateData' = s
               /\ everContained' =
                    (everContained \/
                       \E i \in DOMAIN s.slaves : s.slaves[i].privateip = sip)
          /\ lpc' = "check"
          /\ UNCHANGED proc
  /\ UNCHANGED <<spc, stateChan, stateClosed, doneChan, doneClosed,
                 supLocals, tickRegistered, url, queriesInTick,
                 firstIsLeader, sentBeforeTimeout,
                 mesosHostPort, everRedirected>>

\* lines 128-133: the scan of stateData.Slaves; a nil stateData panics.
\* The result is handed to line 143; the scanned snapshot stays readable in
\* the model until the result has been tested at line 145.
Check ==
  /\ Running /\ lpc = "check"
  /\ IF stateData.isNil
       THEN /\ proc' = "panicNil"
            /\ UNCHANGED <<lpc, tickRegistered>>
       ELSE /\ tickRegistered' = ScanSlaves(stateData.slaves, sip, 1)
            /\ lpc' = "checked"
            /\ UNCHANGED proc
  /\ UNCHANGED <<spc, stateChan, stateClosed, doneChan, doneClosed,
                 supLocals, url, stateData, queriesInTick, firstIsLeader,
                 sentBeforeTimeout, everContained,
                 mesosHostPort, everRedirected>>

\* if isRegistered == true { out <- isRegistered }
LoopSend ==
  /\ Running /\ lpc = "checked" /\ tickRegistered
  /\ IF stateClosed
       THEN /\ proc' = "panicClosed"
            /\ UNCHANGED <<lpc, spc, stateChan, supLocals, sentBeforeTimeout,
                           url, stateData>>
       ELSE /\ IF spc = "parked"
                 THEN /\ isRegistered' = TRUE
                      /\ selected' = "recv"
                      /\ spc' = "send"
                      /\ UNCHANGED stateChan
                 ELSE /\ Len(stateChan) < StateCap
                      /\ stateChan' = Append(stateChan, TRUE)
                      /\ UNCHANGED <<spc, supLocals>>
            /\ sentBeforeTimeout' =
                 (sentBeforeTimeout \/ selected # "timeout")
            /\ lpc' = "select"
            /\ url' = <<>>
            /\ stateData' = NilState
            /\ UNCHANGED proc
  /\ UNCHANGED <<stateClosed, doneChan, doneClosed, tickRegistered,
                 queriesInTick, firstIsLeader, everContained,
                 mesosHostPort, everRedirected>>

\* variant of LoopNoSend that sends the false result as well
LoopNoSendSendsFalse ==
  /\ Running /\ lpc = "checked" /\ ~tickRegistered
  /\ IF stateClosed
       THEN /\ proc' = "panicClosed"
            /\ UNCHANGED <<lpc, spc, stateChan, supLocals, sentBeforeTimeout,
                           url, stateData>>
       ELSE /\ IF spc = "parked"
                 THEN /\ isRegistered' = FALSE
                      /\ selected' = "recv"
                      /\ spc' = "send"
                      /\ UNCHANGED stateChan
                 ELSE /\ Len(stateChan) < StateCap
                      /\ stateChan' = Append(stateChan, FALSE)
                      /\ UNCHANGED <<spc, supLocals>>
            /\ UNCHANGED sentBeforeTimeout
            /\ lpc' = "select"
            /\ url' = <<>>
            /\ stateData' = NilState
            /\ UNCHANGED proc
  /\ UNCHANGED <<stateClosed, doneChan, doneClosed, tickRegistered,
                 queriesInTick, firstIsLeader, everContained,
                 mesosHostPort, everRedirected>>

\* isRegistered is false: nothing is sent
LoopNoSend ==
  /\ Running /\ lpc = "checked" /\ ~tickRegistered
  /\ lpc' = "select"
  /\ url' = <<>>
  /\ stateData' = NilState
  /\ UNCHANGED <<proc, spc, stateChan, stateClosed, doneChan, doneClosed,
                 supLocals, tickRegistered, queriesInTick, firstIsLeader,
                 sentBeforeTimeout, everContained,
                 mesosHostPort, everRedirected>>

\* variant of LoopSelect that parks without looking at the done channel
LoopSelectAlwaysParks ==
  /\ Running /\ lpc = "select"
  /\ lpc' = "parked"
  /\ UNCHANGED <<proc, spc, stateChan, stateClosed, doneChan, doneClosed,
                 supLocals, tickLocals, sentBeforeTimeout, everContained,
                 mesosHostPort, everRedirected>>

\* entering the select: a buffered signal (or a closed channel) takes the
\* done case at once; otherwise the goroutine parks with the 15 s timer armed
LoopSelect ==
  /\ Running /\ lpc = "select"
  /\ IF Len(doneChan) > 0
       THEN /\ doneChan' = Tail(doneChan)
            /\ lpc' = "closing"
       ELSE IF doneClosed
         THEN /\ lpc' = "closing"
              /\ UNCHANGED doneChan
         ELSE /\ lpc' = "parked"
              /\ UNCHANGED doneChan
  /\ UNCHANGED <<proc, spc, stateChan, stateClosed, doneClosed, supLocals,
                 tickLocals, sentBeforeTimeout, everContained,
                 mesosHostPort, everRedirected>>

\* case <-time.After(time.Second * 15): continue
LoopTimer ==
  /\ Running /\ lpc = "parked"
  /\ lpc' = "call"
  /\ queriesInTick' = 0
  /\ UNCHANGED <<proc, spc, stateChan, stateClosed, doneChan, doneClosed,
                 supLocals, tickRegistered, url, stateData, firstIsLeader,
                 sentBeforeTimeout, everContained,
                 mesosHostPort, everRedirected>>

\* variant of LoopClose whose break leaves only the select
LoopCloseNoExit ==
  /\ Running /\ lpc = "closing"
  /\ IF stateClosed
       THEN /\ proc' = "panicClosed"
            /\ UNCHANGED <<lpc, stateClosed, spc, supLocals>>
       ELSE /\ stateClosed' = TRUE
            /\ lpc' = "call"
            /\ IF spc = "parked"
                 THEN /\ isRegistered' = FALSE
                      /\ selected' = "recv"
                      /\ spc' = "send"
                 ELSE UNCHANGED <<spc, supLocals>>
            /\ UNCHANGED proc
  /\ UNCHANGED <<stateChan, doneChan, doneClosed, tickLocals,
                 sentBeforeTimeout, everContained,
                 mesosHostPort, everRedirected>>

\* case <-done: close(out); exitFor = true; break; break
LoopClose ==
  /\ Running /\ lpc = "closing"
  /\ IF stateClosed
       THEN /\ proc' = "panicClosed"
            /\ UNCHANGED <<lpc, stateClosed, spc, supLocals>>
       ELSE /\ stateClosed' = TRUE
            /\ lpc' = "exited"
            /\ IF spc = "parked"
                 THEN /\ isRegistered' = FALSE
                      /\ selected' = "recv"
                      /\ spc' = "send"
                 ELSE UNCHANGED <<spc, supLocals>>
            /\ UNCHANGED proc
  /\ UNCHANGED <<stateChan, doneChan, doneClosed, tickLocals,
                 sentBeforeTimeout, everContained,
                 mesosHostPort, everRedirected>>

\* ---------------------------------------------------------- specification
Next ==
  \/ SupGo
  \/ SupSelect
  \/ SupTimeout
  \/ SupSendDone
  \/ SupClose
  \/ QueryBegin1
  \/ Query1Return
  \/ Resolve
  \/ Query2Return
  \/ Check
  \/ LoopSend
  \/ LoopNoSend
  \/ LoopSelect
  \/ LoopTimer
  \/ LoopClose

Spec == Init /\ [][Next]_vars

\* Fair scheduling of both goroutines; timers fire; every query returns.
FairSpec ==
  /\ Spec
  /\ WF_vars(SupGo) /\ WF_vars(SupSelect) /\ WF_vars(SupTimeout)
  /\ WF_vars(SupSendDone) /\ WF_vars(SupClose)
  /\ WF_vars(QueryBegin1) /\ WF_vars(Query1Return) /\ WF_vars(Resolve)
  /\ WF_vars(Query2Return) /\ WF_vars(Check) /\ WF_vars(LoopSend)
  /\ WF_vars(LoopNoSend) /\ WF_vars(LoopSelect) /\ WF_vars(LoopTimer)
  /\ WF_vars(LoopClose)

\* ------------------------------------------------------------- properties
SupervisorStep == SupGo \/ SupSelect \/ SupTimeout \/ SupSendDone \/ SupClose

Signalled == spc \in {"close", "returned"}

AtOrPastCheckpoint == {"select", "parked", "closing", "exited"}

QueryBegins == queriesInTick' > queriesInTick

HasMatch(s) == \E i \in DOMAIN s.slaves : s.slaves[i].privateip = sip

\* C1: waitForMesosSlaveRegistration returns true exactly when the loop put
\* a true on the result channel before the 90 s timer fired, and false in
\* every other return.
C1_TrueIffSentBeforeTimeout ==
  spc = "returned" => (isRegistered <=> sentBeforeTimeout)

C1_Witness ==
  spc = "returned" /\ isRegistered /\ sentBeforeTimeout /\ selected = "recv"

\* C2: the run is never ended by an error raised inside a polling tick, and
\* until the supervisor has returned it can always take its next step, so
\* that it resolves to a boolean.
C2_NeverFails ==
  /\ proc = "running"
  /\ spc # "returned" => ENABLED SupervisorStep

\* C3 (as stated): while the cancellation signal is in the cancellation
\* channel no call of queryMesosState begins, neither the first query of a
\* tick nor the redirect query.
C3_NoQueryAfterSignal ==
  [][Len(doneChan) > 0 => ~QueryBegins]_vars

\* C3 (amended): once the signal has been sent and the loop is at or past
\* the select that follows a tick, it takes the done case there and never
\* begins another query; only the tick under way when the signal was sent
\* may still begin its queries.
C3_NoQueryAfterCheckpoint ==
  [][(Signalled /\ lpc \in AtOrPastCheckpoint) =>
       (lpc' \in {"closing", "exited"} \/ lpc' = lpc) /\ ~QueryBegins]_vars

C3_Witness ==
  Signalled /\ lpc = "closing" /\ queriesInTick = 2 /\ Len(doneChan) = 0

\* C4: once the cancellation signal has been sent, the loop eventually
\* closes the result channel and its goroutine ends.
C4_EventuallyCancelled ==
  Signalled ~> (lpc = "exited" /\ stateClosed)

\* C5: a non-leader answer whose leader field has no "@" does not end the
\* run: the tick counts as a non-match and the loop goes on to its select.
C5_MalformedLeaderIsNonMatch ==
  [][(lpc = "resolve" /\ NeedsRedirect(stateData)
        /\ Len(Split(stateData.leader)) < 2)
       => (proc' = "running" /\ lpc' \in {"resolve", "select"})]_vars

\* C6: a query that fails (transport or decode error, first or redirect
\* query) does not end the run: the tick counts as a non-match and the loop
\* goes on to its select.
C6_QueryFailureIsNonMatch ==
  [][(lpc \in {"inflight1", "inflight2"}) =>
       (proc' = "running" /\
          ((lpc' # lpc /\ stateData'.isNil) =>
             (lpc' = "select" /\ ~tickRegistered')))]_vars

\* C7: if no returned snapshot ever listed the agent's private IP, the
\* supervisor returns false, through the timeout case, with the cancellation
\* signal delivered (buffered in doneChan or already taken by the loop).
C7_NoMatchReturnsFalseAfterTimeout ==
  (spc = "returned" /\ ~everContained) =>
    /\ ~isRegistered
    /\ selected = "timeout"
    /\ (Len(doneChan) = 1 \/ lpc \in {"closing", "exited"})

C7_Witness ==
  /\ spc = "returned" /\ ~everContained /\ selected = "timeout"
  /\ ~isRegistered /\ lpc = "exited" /\ stateClosed

\* C8: after the timeout case has run, the supervisor's send of the signal
\* and its return are enabled whatever the loop is doing, and it returns
\* false.
C8_TimeoutPathNeverWaitsForLoop ==
  (Running /\ selected = "timeout") =>
    /\ spc = "send" => ENABLED SupSendDone
    /\ spc = "close" => ENABLED SupClose
    /\ spc \in {"send", "close", "returned"}
    /\ ~isRegistered

C8_Witness ==
  /\ spc = "returned" /\ selected = "timeout" /\ ~isRegistered
  /\ lpc = "inflight2" /\ Len(doneChan) = 1

\* C9: the registration check is true exactly when some record of the
\* scanned worker list has privateip equal to the agent IP; false for an
\* empty list.
C9_ScanIsExistence ==
  lpc = "checked" => (tickRegistered <=> HasMatch(stateData))

C9_Witness ==
  /\ lpc = "checked" /\ tickRegistered /\ Len(stateData.slaves) = 2
  /\ stateData.slaves[1].privateip # sip
  /\ stateData.slaves[1].publicip = sip

\* C10: when the first answer of a tick has elected_time # 0 and
\* leader = pid, the tick goes straight to the scan of that same snapshot
\* and has begun exactly one query.
C10_LeaderAnswerNoRedirect ==
  /\ []((lpc \in {"check", "checked"} /\ firstIsLeader)
          => queriesInTick = 1)
  /\ [][(lpc = "resolve" /\ firstIsLeader /\ lpc' # lpc)
          => (lpc' = "check" /\ stateData' = stateData /\ url' = url
              /\ ~QueryBegins)]_vars

C10_Witness ==
  /\ lpc = "checked" /\ firstIsLeader /\ queriesInTick = 1
  /\ stateData.electedTime # 0 /\ stateData.leader = stateData.pid

\* the leader field has exactly one "@"
WellFormed(l) == Cardinality({i \in 1..Len(l) : l[i] = "@"}) = 1

\* what follows the "@" of a well-formed leader field
AfterAt(l) ==
  LET k == CHOOSE i \in 1..Len(l) : l[i] = "@"
  IN  SubSeq(l, k + 1, Len(l))

\* C11: a first answer with elected_time = 0, leader # pid and a well-formed
\* leader field is followed by exactly one more query, to
\* http://<what follows "@">/<configured path>, and the scan reads the
\* snapshot that query returned.
C11_FollowerAnswerOneRedirect ==
  /\ [][(lpc = "resolve" /\ stateData.electedTime = 0
           /\ stateData.leader # stateData.pid
           /\ WellFormed(stateData.leader) /\ lpc' # lpc)
          => (lpc' = "inflight2" /\ queriesInTick' = 2
              /\ url' = <<"http://">> \o AfterAt(stateData.leader)
                          \o <<"/">> \o mapi)]_vars
  /\ [][(lpc = "inflight2" /\ lpc' # lpc)
          => (lpc' = "check" /\ queriesInTick' = 2 /\ url' = url)]_vars
  /\ [][(lpc = "check" /\ queriesInTick = 2 /\ lpc' # lpc)
          => (lpc' = "checked" /\ queriesInTick' = 2
              /\ (tickRegistered' <=> HasMatch(stateData)))]_vars

C11_Witness ==
  /\ lpc = "checked" /\ queriesInTick = 2 /\ tickRegistered
  /\ url = <<"http://", "hB", ":", "5050", "/", "/state">>
  /\ HasMatch(stateData)

\* C12: whenever the loop is about to send true on the result channel, the
\* capacity-1 buffer is empty, so the send does not block.
C12_SendNeverBlocks ==
  (Running /\ lpc = "checked" /\ tickRegistered) => Len(stateChan) = 0

\* C13: once a tick has matched and the loop has sent true, the loop only
\* goes on to close the result channel and stop: it begins no further tick.
C13_FoundIsTerminal ==
  [][(tickRegistered /\ lpc \in AtOrPastCheckpoint)
       => (lpc' \in AtOrPastCheckpoint /\ ~QueryBegins)]_vars

IsLeaderAnswer(s) == s.electedTime # 0 /\ s.leader = s.pid

MixedAnswer(s) ==
  \/ s.electedTime = 0 /\ s.leader = s.pid
  \/ s.electedTime # 0 /\ s.leader # s.pid

C15_AtMostTwoQueriesPerTick ==
  /\ [](queriesInTick <= 2)
  /\ [][(lpc \in {"inflight2", "check", "checked"} /\ queriesInTick = 2)
          => ~QueryBegins]_vars
  /\ [][(lpc = "check" /\ queriesInTick = 2 /\ NeedsRedirect(stateData)
           /\ lpc' # lpc)
          => (lpc' = "checked" /\ stateData' = stateData
              /\ (tickRegistered' <=> HasMatch(stateData)))]_vars

C15_Witness ==
  /\ lpc = "checked" /\ queriesInTick = 2 /\ ~stateData.isNil
  /\ stateData.electedTime = 0 /\ stateData.leader # stateData.pid

\* C16: the loop reaches its cancelled state only from the select between
\* ticks; a signal sent while a tick is under way changes nothing in that
\* tick and stays buffered until the tick, scan included, has completed.
C16_CancellationNotPreemptive ==
  [][/\ (lpc' = "closing" /\ lpc # "closing") => lpc \in {"select", "parked"}
     /\ (lpc \in InTick /\ Len(doneChan') > Len(doneChan))
          => (lpc' = lpc /\ UNCHANGED tickLocals)
     /\ (lpc \in InTick /\ Len(doneChan) = 1) => Len(doneChan') = 1]_vars

C16_Witness ==
  /\ lpc = "checked" /\ queriesInTick = 2 /\ Len(doneChan) = 1
  /\ spc = "returned"

\* C17: the result channel is not closed before the supervisor's select has
\* run, every value the supervisor receives is a true, and a true result
\* implies that some returned snapshot listed the agent's private IP.
C17_ReceivedValueIsAMatch ==
  /\ stateClosed => selected # "none"
  /\ selected = "recv" => isRegistered
  /\ isRegistered => (selected = "recv" /\ everContained)

C17_Witness ==
  /\ stateClosed /\ selected = "recv" /\ isRegistered /\ spc = "returned"
  /\ lpc = "exited"

\* C18: the loop closes the result channel at most once, never sends on it
\* afterwards, and once it has taken the done case it runs no further
\* iteration.
C18_CloseOnceThenStop ==
  /\ [](proc # "panicClosed")
  /\ [](stateClosed => lpc = "exited")
  /\ [][(lpc \in {"closing", "exited"}) =>
          (lpc' \in {"closing", "exited"} /\ ~QueryBegins)]_vars
  /\ [][(stateClosed) =>
          (stateClosed' /\ Len(stateChan') <= Len(stateChan))]_vars

C18_Witness ==
  /\ lpc = "exited" /\ stateClosed /\ Len(stateChan) = 1 /\ Running

\* C19: the supervisor sends the signal exactly once on both return paths:
\* the send is enabled whenever it is reached, before it no signal exists,
\* and after it exactly one signal is buffered or has been taken by the loop.
C19_SignalExactlyOnce ==
  /\ (Running /\ spc = "send") => ENABLED SupSendDone
  /\ spc \in {"close", "returned"} =>
       (Len(doneChan) = 1) # (lpc \in {"closing", "exited"})
  /\ spc \notin {"close", "returned"} =>
       (Len(doneChan) = 0 /\ lpc \notin {"closing", "exited"} /\ ~doneClosed)

C19_Witness ==
  /\ spc = "returned" /\ selected = "recv" /\ Len(doneChan) = 1
  /\ lpc = "select"

\* C20: the first query of every tick goes to the configured host:port and
\* path, also after an earlier tick has followed a leader field.
C20_FirstQueryAtConfiguredEndpoint ==
  /\ lpc = "inflight1" =>
       url = <<"http://">> \o mip \o <<":">> \o mport \o <<"/">> \o mapi
  /\ lpc # "idle" => mesosHostPort = mip \o <<":">> \o mport

C20_Witness ==
  lpc = "inflight1" /\ everRedirected /\ queriesInTick = 1

TypeOK ==
  /\ proc \in {"running", "panicNet", "exitDecode", "panicIndex",
               "panicNil", "panicClosed"}
  /\ spc \in {"go", "select", "parked", "send", "close", "returned"}
  /\ lpc \in {"idle", "call", "inflight1", "resolve", "inflight2", "check",
              "checked", "select", "parked", "closing", "exited"}
  /\ stateChan \in Seq(BOOLEAN) /\ Len(stateChan) <= StateCap
  /\ doneChan \in Seq(BOOLEAN) /\ Len(doneChan) <= DoneCap
  /\ stateClosed \in BOOLEAN /\ doneClosed \in BOOLEAN
  /\ isRegistered \in BOOLEAN /\ tickRegistered \in BOOLEAN
  /\ selected \in {"none", "recv", "timeout"}
  /\ stateData \in MesosState \cup {NilState}
  /\ queriesInTick \in 0..2 /\ firstIsLeader \in BOOLEAN
  /\ mesosHostPort \in {<<>>, HostPort(mip, mport)}
  /\ everRedirected \in BOOLEAN
  /\ sentBeforeTimeout \in BOOLEAN /\ everContained \in BOOLEAN

====
